---- MODULE Spec2Model ----
(***************************************************************************)
(* Verification model of Firmware/IotaWatt/RTC.cpp: the DateTime value     *)
(* type (calendar arithmetic, validity, ordering, toString) and the RTC    *)
(* driver for the M41T81 and PCF8523 clock chips.                          *)
(*                                                                         *)
(* Four specifications share the variables:                                *)
(*   Spec       - the DateTime constructors, unixtime, isValid, operator<, *)
(*                dayOfTheWeek and operator-                               *)
(*   SpecString - DateTime::toString on a caller-supplied buffer           *)
(*   SpecRTC    - the RTC driver on a register-backed two-wire bus         *)
(*   SpecIso    - DateTime::timestamp and the ISO 8601 constructor         *)
(*                                                                         *)
(* uint32_t values are kept as two 16-bit limbs [hi, lo] so that the       *)
(* 32-bit wraparound of the code is computed exactly.                      *)
(***************************************************************************)
EXTENDS Integers, Sequences, FiniteSets

VARIABLES
    op,       \* the operation that produced this state
    pad,      \* the byte that follows the daysInMonth table in flash
    args,     \* the arguments handed to the six-field constructor
    dt,       \* the DateTime object (this)
    other,    \* a second DateTime (isValid's `other`, operator<'s `right`, now()'s result)
    t,        \* a uint32_t second count (constructor argument or unixtime() result)
    flag,     \* the boolean an operation returned
    fmt,      \* toString: the buffer as the caller initialised it
    buffer,   \* the character buffer: toString's argument, model()'s response
    overrun,  \* toString: the scan ran past the buffer's terminator
    RTCWireBus, \* RTC::RTCWireBus: "null" until an operation stores the bus handle
    model,    \* RTC::_model
    RTCaddr,  \* RTC::_RTCaddr
    acks,     \* bus: the addresses at which the device acknowledges
    mask10,   \* bus: the bits of register 0x10 the device implements
    regs,     \* bus: the device's registers
    busTx,    \* bus: transactions the last operation started
    busWr,    \* bus: bytes the last operation wrote
    weekday,  \* the values dayOfTheWeek() returned, in call order
    span,     \* TimeSpan::_seconds of the last DateTime difference
    before,   \* what now() returned right before the last stop()/resetLostPower()
    osc,      \* the last of stop() and adjust() performed on a detected device
    cleared   \* resetLostPower() or adjust() was performed on a detected device

vars == <<op, pad, args, dt, other, t, flag, fmt, buffer, overrun,
          RTCWireBus, model, RTCaddr, acks, mask10, regs, busTx, busWr,
          weekday, span, before, osc, cleared>>

dtVars == <<pad, args, dt, other, t, flag, weekday, span>>
strVars == <<fmt, buffer, overrun>>
rtcVars == <<RTCWireBus, model, RTCaddr, acks, mask10, regs, busTx, busWr,
             before, osc, cleared>>

-----------------------------------------------------------------------------
(* Fixed-width arithmetic                                                  *)

\* uint8_t conversion
U8(n) == n % 256

\* uint16_t conversion
U16(n) == n % 65536

\* uint32_t as two 16-bit limbs
U32(hi, lo) == [hi |-> hi % 65536, lo |-> lo % 65536]

\* a value below 2^31 widened to uint32_t
U32Of(n) == U32(n \div 65536, n)

\* uint32_t addition, modulo 2^32
U32Add(a, b) == LET l == a.lo + b.lo IN U32(a.hi + b.hi + (l \div 65536), l)

\* uint32_t subtraction, modulo 2^32
U32Sub(a, b) == LET l == a.lo - b.lo IN U32(a.hi - b.hi + (l \div 65536), l)

\* uint32_t multiplication by a small factor, modulo 2^32
U32Mul(a, k) == LET l == a.lo * k IN U32(a.hi * k + (l \div 65536), l)

\* uint32_t division by a small divisor (k <= 32767)
U32Div(a, k) ==
    LET x == (a.hi % k) * 65536 + a.lo
    IN [hi |-> a.hi \div k, lo |-> x \div k]

\* uint32_t remainder by a small divisor (k <= 32767)
U32Mod(a, k) == ((a.hi % k) * 65536 + a.lo) % k

\* uint32_t comparison
U32Lt(a, b) == a.hi < b.hi \/ (a.hi = b.hi /\ a.lo < b.lo)

\* 946684800 = 14445 * 65536 + 17280
SECONDS_FROM_1970_TO_2000 == U32(14445, 17280)

-----------------------------------------------------------------------------
(* DateTime: calendar arithmetic                                           *)

daysInMonth == <<31, 28, 31, 30, 31, 30, 31, 31, 30, 31, 30>>

\* pgm_read_byte(daysInMonth + idx): the table has 11 entries; a read past
\* its end yields whatever byte the build placed there
pgm_read_byte(idx) == IF idx < 11 THEN daysInMonth[idx + 1] ELSE pad

RECURSIVE SumMonths(_, _, _)
\* for (uint8_t i = 1; i < m; ++i) days += pgm_read_byte(daysInMonth + i - 1);
SumMonths(days, i, m) ==
    IF i < m THEN SumMonths(U16(days + pgm_read_byte(i - 1)), i + 1, m)
    ELSE days

LeapAdjust_never(y, m) == 0

\* if (m > 2 && y % 4 == 0) ++days;
LeapAdjust(y, m) == IF m > 2 /\ y % 4 = 0 THEN 1 ELSE 0

date2days(y0, m, d) ==
    LET y == IF y0 >= 2000 THEN y0 - 2000 ELSE y0
        days == U16(SumMonths(d, 1, m) + LeapAdjust(y, m))
    IN U16(days + 365 * y + ((y + 3) \div 4) - 1)

time2ulong(days, h, m, s) ==
    U32Add(U32Mul(U32Of((days * 24 + h) * 60 + m), 60), U32Of(s))

RECURSIVE YearLoop(_, _)
\* for (yOff = 0;; ++yOff) { leap = ...; if (days < 365U + leap) break; days -= 365 + leap; }
YearLoop(yOff, days) ==
    LET leap == IF yOff % 4 = 0 THEN 1 ELSE 0
    IN IF days < 365 + leap
       THEN [yOff |-> yOff, days |-> days, leap |-> leap]
       ELSE YearLoop(U8(yOff + 1), days - (365 + leap))

RECURSIVE MonthLoop(_, _, _)
\* for (m = 1; m < 12; ++m) { ...; if (days < daysPerMonth) break; days -= daysPerMonth; }
MonthLoop(m, days, leap) ==
    IF m < 12
    THEN LET daysPerMonth ==
                 U8(pgm_read_byte(m - 1) + (IF leap = 1 /\ m = 2 THEN 1 ELSE 0))
         IN IF days < daysPerMonth
            THEN [m |-> m, days |-> days]
            ELSE MonthLoop(m + 1, days - daysPerMonth, leap)
    ELSE [m |-> m, days |-> days]

EpochShift_none(t0) == t0

\* t -= SECONDS_FROM_1970_TO_2000;
EpochShift(t0) == U32Sub(t0, SECONDS_FROM_1970_TO_2000)

\* DateTime::DateTime(uint32_t t)
DateTimeU(t0) ==
    LET t1 == EpochShift(t0)
        ss == U32Mod(t1, 60)
        t2 == U32Div(t1, 60)
        mm == U32Mod(t2, 60)
        t3 == U32Div(t2, 60)
        n3 == t3.hi * 65536 + t3.lo
        hh == n3 % 24
        yl == YearLoop(0, U16(n3 \div 24))
        ml == MonthLoop(1, yl.days, yl.leap)
    IN [yOff |-> yl.yOff, m |-> ml.m, d |-> U8(ml.days + 1),
        hh |-> hh, mm |-> mm, ss |-> ss]

\* DateTime::DateTime(uint16_t year, uint8_t month, ...): the fields are
\* bytes (timestamp's 25-character buffer holds "any DateTime")
DateTime6(year, month, day, hour, min, sec) ==
    [yOff |-> U8(IF year >= 2000 THEN year - 2000 ELSE year),
     m |-> U8(month), d |-> U8(day), hh |-> U8(hour), mm |-> U8(min), ss |-> U8(sec)]

\* DateTime::unixtime
unixtime(x) ==
    U32Add(time2ulong(date2days(x.yOff, x.m, x.d), x.hh, x.mm, x.ss),
           SECONDS_FROM_1970_TO_2000)

\* DateTime::isValid
isValid(x) ==
    IF x.yOff >= 100 THEN FALSE
    ELSE LET o == DateTimeU(unixtime(x))
         IN x.yOff = o.yOff /\ x.m = o.m /\ x.d = o.d /\ x.hh = o.hh
            /\ x.mm = o.mm /\ x.ss = o.ss

Less_noYear(a, b) ==
    a.m < b.m \/ (a.m = b.m /\ (a.d < b.d \/ (a.d = b.d /\ (a.hh < b.hh \/
    (a.hh = b.hh /\ (a.mm < b.mm \/ (a.mm = b.mm /\ a.ss < b.ss)))))))

\* DateTime::operator<
Less(a, b) ==
    a.yOff + 2000 < b.yOff + 2000 \/ (a.yOff + 2000 = b.yOff + 2000 /\
    (a.m < b.m \/ (a.m = b.m /\ (a.d < b.d \/ (a.d = b.d /\ (a.hh < b.hh \/
    (a.hh = b.hh /\ (a.mm < b.mm \/ (a.mm = b.mm /\ a.ss < b.ss)))))))))

dayOfTheWeek_noAnchor(x) == U8(date2days(x.yOff, x.m, x.d) % 7)

\* DateTime::dayOfTheWeek
dayOfTheWeek(x) == U8((date2days(x.yOff, x.m, x.d) + 6) % 7)

\* the int32_t a uint32_t converts to (two's complement)
Int32(u) ==
    IF u.hi < 32768 THEN u.hi * 65536 + u.lo
    ELSE (u.hi - 65536) * 65536 + u.lo

\* TimeSpan::TimeSpan(int32_t seconds) : _seconds(seconds), given a uint32_t
TimeSpan(u) == Int32(u)

\* DateTime::operator-(const DateTime &right): the TimeSpan's _seconds
Minus(a, b) == TimeSpan(U32Sub(unixtime(a), unixtime(b)))

-----------------------------------------------------------------------------
(* DateTime: ISO 8601 text                                                 *)

Digits == <<"0", "1", "2", "3", "4", "5", "6", "7", "8", "9">>

\* '0' <= c && c <= '9'
IsDigit(c) == \E i \in 1 .. 10 : Digits[i] = c

\* c - '0' for a digit c
DigitVal(c) == (CHOOSE i \in 1 .. 10 : Digits[i] = c) - 1

conv2d_noTens(p0, p1) ==
    LET v0 == IF IsDigit(p0) THEN DigitVal(p0) ELSE 0
    IN IF IsDigit(p1) THEN U8(v0 + DigitVal(p1)) ELSE v0

\* static uint8_t conv2d(const char *p), p[0] = p0 and p[1] = p1
conv2d(p0, p1) ==
    LET v0 == IF IsDigit(p0) THEN DigitVal(p0) ELSE 0
    IN IF IsDigit(p1) THEN U8(10 * v0 + DigitVal(p1)) ELSE v0

\* char ref[] = "2000-01-01T00:00:00";
IsoTemplate ==
    <<"2", "0", "0", "0", "-", "0", "1", "-", "0", "1", "T",
      "0", "0", ":", "0", "0", ":", "0", "0">>

\* memcpy(ref, iso8601dateTime, min(strlen(ref), strlen(iso8601dateTime)));
IsoRef(s) ==
    LET n == IF Len(IsoTemplate) < Len(s) THEN Len(IsoTemplate) ELSE Len(s)
    IN [i \in 1 .. Len(IsoTemplate) |-> IF i <= n THEN s[i] ELSE IsoTemplate[i]]

\* DateTime::DateTime(const char *iso8601dateTime)
DateTimeIso(s) ==
    LET ref == IsoRef(s)
    IN [yOff |-> conv2d(ref[3], ref[4]), m |-> conv2d(ref[6], ref[7]),
        d |-> conv2d(ref[9], ref[10]), hh |-> conv2d(ref[12], ref[13]),
        mm |-> conv2d(ref[15], ref[16]), ss |-> conv2d(ref[18], ref[19])]

RECURSIVE Decimal(_)
\* sprintf "%u" / "%d" of a non-negative number
Decimal(n) == IF n < 10 THEN <<Digits[n + 1]>> ELSE Append(Decimal(n \div 10), Digits[(n % 10) + 1])

\* sprintf "%02d" of a byte
Decimal02(n) == IF n < 10 THEN <<"0", Digits[n + 1]>> ELSE Decimal(n)

\* DateTime::timestamp(opt)
timestamp(x, opt) ==
    IF opt = "TIMESTAMP_TIME"
    THEN Decimal02(x.hh) \o <<":">> \o Decimal02(x.mm) \o <<":">> \o Decimal02(x.ss)
    ELSE IF opt = "TIMESTAMP_DATE"
    THEN Decimal(2000 + x.yOff) \o <<"-">> \o Decimal02(x.m) \o <<"-">> \o Decimal02(x.d)
    ELSE Decimal(2000 + x.yOff) \o <<"-">> \o Decimal02(x.m) \o <<"-">> \o Decimal02(x.d)
         \o <<"T">> \o Decimal02(x.hh) \o <<":">> \o Decimal02(x.mm) \o <<":">>
         \o Decimal02(x.ss)

-----------------------------------------------------------------------------
(* Inputs of the DateTime specification                                    *)

MaxMonth == 13
MaxDay == 32
MaxStep == 15

Years == {0, 4, 99, 100, 256, 1800, 1999, 2000, 2001, 2004, 2021, 2099, 2100, 2256}
Months == 0 .. MaxMonth
Days == 0 .. MaxDay
Times == {<<0, 0, 0>>, <<23, 59, 59>>, <<18, 34, 56>>, <<24, 0, 0>>,
          <<0, 60, 0>>, <<0, 0, 60>>}
PadBytes == {0, 255}

PairYears == {2000, 2001, 2099}
PairMonths == {1, 2, 3, 12}
PairDays == {1, 28, 29, 31}
PairTimes == {<<0, 0, 0>>, <<0, 0, 59>>, <<0, 1, 0>>, <<23, 59, 59>>}

\* second counts: a grid over the whole 32-bit range and the counts around
\* 2000-01-01T00:00:00
Counts ==
    {U32(k * 4369, l) : k \in 0 .. MaxStep, l \in {0, 1, 17279, 17280, 65535}}
    \cup {U32(h, l) : h \in {14444, 14445, 14446}, l \in {0, 17279, 17280, 17281, 65535}}

WeekYears == 2000 .. 2099
LastDay == [yOff |-> 99, m |-> 12, d |-> 31, hh |-> 23, mm |-> 59, ss |-> 59]

NoArgs == [year |-> -1, month |-> 0, day |-> 0, hour |-> 0, min |-> 0, sec |-> 0]
Epoch2000 == [yOff |-> 0, m |-> 1, d |-> 1, hh |-> 0, mm |-> 0, ss |-> 0]

-----------------------------------------------------------------------------
(* Idle values of the variables a specification does not use               *)

StrIdle == fmt = <<>> /\ buffer = <<>> /\ overrun = FALSE
RtcIdle ==
    /\ RTCWireBus = "null"
    /\ model = "unknown" /\ RTCaddr = 0 /\ acks = {} /\ mask10 = 0
    /\ regs = <<>> /\ busTx = 0 /\ busWr = <<>>
    /\ before = <<>> /\ osc = "unset" /\ cleared = FALSE
DtIdle ==
    /\ pad = 0 /\ args = NoArgs /\ dt = Epoch2000 /\ other = Epoch2000
    /\ t = SECONDS_FROM_1970_TO_2000 /\ flag = FALSE
    /\ weekday = <<>> /\ span = 0

-----------------------------------------------------------------------------
(* The calendar of 2000..2099, stated independently of the code            *)

MonthLength(year, month) ==
    IF month \in {4, 6, 9, 11} THEN 30
    ELSE IF month = 2 THEN (IF year % 4 = 0 THEN 29 ELSE 28)
    ELSE 31

\* year/month/day hour:min:sec is a date and time of the calendar
ValidFields(year, month, day, hour, min, sec) ==
    /\ month \in 1 .. 12
    /\ day \in 1 .. MonthLength(year, month)
    /\ hour \in 0 .. 23 /\ min \in 0 .. 59 /\ sec \in 0 .. 59

\* the constructor's arguments are a valid tuple with the full year 2000..2099
ValidArgs ==
    /\ args.year \in 2000 .. 2099
    /\ ValidFields(args.year, args.month, args.day, args.hour, args.min, args.sec)

\* the constructor's arguments are a valid tuple, the year given in full or
\* as an offset 0..99
AcceptableArgs ==
    /\ args.year \in (2000 .. 2099) \cup (0 .. 99)
    /\ ValidFields(args.year, args.month, args.day, args.hour, args.min, args.sec)

\* the DateTime x holds a valid date and time in 2000..2099
ValidDT(x) ==
    x.yOff \in 0 .. 99 /\ ValidFields(2000 + x.yOff, x.m, x.d, x.hh, x.mm, x.ss)

ArgsAsDateTime ==
    [yOff |-> args.year - 2000, m |-> args.month, d |-> args.day,
     hh |-> args.hour, mm |-> args.min, ss |-> args.sec]

\* the calendar day after x (x is valid and not 2099-12-31), at the same time
Tomorrow(x) ==
    IF x.d < MonthLength(2000 + x.yOff, x.m) THEN [x EXCEPT !.d = x.d + 1]
    ELSE IF x.m < 12 THEN [x EXCEPT !.m = x.m + 1, !.d = 1]
    ELSE [x EXCEPT !.yOff = x.yOff + 1, !.m = 1, !.d = 1]

RECURSIVE DaysBeforeYear(_)
\* the days of the years 2000 .. 2000 + y - 1
DaysBeforeYear(y) ==
    IF y = 0 THEN 0
    ELSE DaysBeforeYear(y - 1) + (IF (2000 + y - 1) % 4 = 0 THEN 366 ELSE 365)

RECURSIVE DaysBeforeMonth(_, _)
\* the days of the months 1 .. month - 1 of the year
DaysBeforeMonth(year, month) ==
    IF month = 1 THEN 0
    ELSE DaysBeforeMonth(year, month - 1) + MonthLength(year, month - 1)

\* the number of days from 2000-01-01 to the valid date x
DaysSince2000(x) ==
    DaysBeforeYear(x.yOff) + DaysBeforeMonth(2000 + x.yOff, x.m) + x.d - 1

-----------------------------------------------------------------------------
(* Specification of the DateTime value type                                *)

Init ==
    /\ op = "start"
    /\ pad \in PadBytes
    /\ args = NoArgs /\ dt = Epoch2000 /\ other = Epoch2000
    /\ t = SECONDS_FROM_1970_TO_2000 /\ flag = FALSE
    /\ weekday = <<>> /\ span = 0
    /\ StrIdle /\ RtcIdle

\* DateTime dt(year, month, day, hour, min, sec)
NewDateTime6 ==
    /\ op = "start"
    /\ \E year \in Years, month \in Months, day \in Days, hms \in Times :
          /\ args' = [year |-> year, month |-> month, day |-> day,
                      hour |-> hms[1], min |-> hms[2], sec |-> hms[3]]
          /\ dt' = DateTime6(year, month, day, hms[1], hms[2], hms[3])
    /\ op' = "DateTime6"
    /\ UNCHANGED <<weekday, span, pad, other, t, flag, strVars, rtcVars>>

\* DateTime dt(count)
NewDateTimeU ==
    /\ op = "start"
    /\ \E c \in Counts : t' = c /\ dt' = DateTimeU(c)
    /\ op' = "DateTimeU"
    /\ UNCHANGED <<weekday, span, pad, args, other, flag, strVars, rtcVars>>

\* t = dt.unixtime()
Unixtime ==
    /\ op \in {"DateTime6", "DateTimeU"}
    /\ t' = unixtime(dt)
    /\ op' = IF op = "DateTime6" THEN "unixtime" ELSE "unixtimeU"
    /\ UNCHANGED <<weekday, span, pad, args, dt, other, flag, strVars, rtcVars>>

\* DateTime other(t)
Rebuild ==
    /\ op = "unixtime"
    /\ other' = DateTimeU(t)
    /\ op' = "rebuilt"
    /\ UNCHANGED <<weekday, span, pad, args, dt, t, flag, strVars, rtcVars>>

\* flag = dt.isValid()
IsValid ==
    /\ op \in {"DateTime6", "DateTimeU"}
    /\ flag' = isValid(dt)
    /\ op' = IF op = "DateTime6" THEN "isValid" ELSE "isValidU"
    /\ UNCHANGED <<weekday, span, pad, args, dt, other, t, strVars, rtcVars>>

\* flag = (a < b) for two DateTimes built from fields
Compare ==
    /\ op = "start"
    /\ \E y1 \in PairYears, m1 \in PairMonths, d1 \in PairDays, h1 \in PairTimes,
          y2 \in PairYears, m2 \in PairMonths, d2 \in PairDays, h2 \in PairTimes :
          LET a == DateTime6(y1, m1, d1, h1[1], h1[2], h1[3])
              b == DateTime6(y2, m2, d2, h2[1], h2[2], h2[3])
          IN dt' = a /\ other' = b /\ flag' = Less(a, b)
    /\ op' = "less"
    /\ UNCHANGED <<weekday, span, pad, args, t, strVars, rtcVars>>

\* weekday = dt.dayOfTheWeek() for a DateTime built from fields
DayOfTheWeek ==
    /\ op = "start"
    /\ \E year \in WeekYears, month \in 1 .. 12, day \in 1 .. 31 :
          dt' = DateTime6(year, month, day, 23, 59, 59)
    /\ weekday' = <<dayOfTheWeek(dt')>>
    /\ op' = "dayOfTheWeek"
    /\ UNCHANGED <<span, pad, args, other, t, flag, strVars, rtcVars>>

\* the caller builds the following calendar day and asks for its weekday
DayOfTheWeekNext ==
    /\ op = "dayOfTheWeek"
    /\ ValidDT(dt) /\ dt # LastDay
    /\ other' = dt
    /\ LET n == Tomorrow(dt)
       IN dt' = DateTime6(2000 + n.yOff, n.m, n.d, n.hh, n.mm, n.ss)
    /\ weekday' = Append(weekday, dayOfTheWeek(dt'))
    /\ op' = "dayOfTheWeek next"
    /\ UNCHANGED <<span, pad, args, t, flag, strVars, rtcVars>>

\* span = (a - b) for two DateTimes built from fields
Subtract ==
    /\ op = "start"
    /\ \E y1 \in PairYears, m1 \in PairMonths, d1 \in PairDays, h1 \in PairTimes,
          y2 \in PairYears, m2 \in PairMonths, d2 \in PairDays, h2 \in PairTimes :
          LET a == DateTime6(y1, m1, d1, h1[1], h1[2], h1[3])
              b == DateTime6(y2, m2, d2, h2[1], h2[2], h2[3])
          IN dt' = a /\ other' = b /\ span' = Minus(a, b)
    /\ op' = "minus"
    /\ UNCHANGED <<weekday, pad, args, t, flag, strVars, rtcVars>>

Next ==
    \/ NewDateTime6 \/ NewDateTimeU \/ Unixtime \/ Rebuild \/ IsValid \/ Compare
    \/ DayOfTheWeek \/ DayOfTheWeekNext \/ Subtract

Spec == Init /\ [][Next]_vars

-----------------------------------------------------------------------------
(* Claims about the DateTime value type                                    *)

\* C1: for every valid field tuple in 2000..2099, the DateTime built from
\* the fields, converted with unixtime() and rebuilt from that count has the
\* same six fields, and isValid() returns true.
C1_RoundTrip ==
    /\ (op = "rebuilt" /\ ValidArgs) => (dt = ArgsAsDateTime /\ other = dt)
    /\ (op = "isValid" /\ ValidArgs) => flag

C1_Witness ==
    /\ op = "rebuilt" /\ ValidArgs
    /\ args.year = 2004 /\ args.month = 2 /\ args.day = 29 /\ args.hour = 23
    /\ other = dt

\* C2: every field tuple that is not a valid date and time (year neither in
\* 2000..2099 nor in 0..99, month outside 1..12, day 0 or past the month's
\* end, hour > 23, minute or second > 59) makes isValid() return false.
C2_InvalidTupleIsInvalid ==
    (op = "isValid" /\ ~AcceptableArgs) => ~flag

\* C3: for two valid DateTimes a and b, a < b holds exactly when
\* a.unixtime() < b.unixtime().
C3_OrderMatchesUnixtime ==
    (op = "less" /\ ValidDT(dt) /\ ValidDT(other))
        => (flag <=> U32Lt(unixtime(dt), unixtime(other)))

C3_Witness ==
    /\ op = "less" /\ flag
    /\ dt = [yOff |-> 0, m |-> 12, d |-> 31, hh |-> 23, mm |-> 59, ss |-> 59]
    /\ other = [yOff |-> 99, m |-> 1, d |-> 1, hh |-> 0, mm |-> 0, ss |-> 0]

\* C8: the count 946684800 yields 2000-01-01T00:00:00, whose unixtime() is
\* 946684800; every count below 946684800 wraps to a year offset of 100 or
\* more, so isValid() is false.
C8_EpochWrap ==
    /\ (op = "DateTimeU" /\ t = SECONDS_FROM_1970_TO_2000) => dt = Epoch2000
    /\ (op = "unixtime" /\ dt = Epoch2000) => t = SECONDS_FROM_1970_TO_2000
    /\ (op = "DateTimeU" /\ U32Lt(t, SECONDS_FROM_1970_TO_2000)) => dt.yOff >= 100
    /\ (op = "isValidU" /\ U32Lt(t, SECONDS_FROM_1970_TO_2000))
           => (dt.yOff >= 100 /\ ~flag)

C8_Witness ==
    /\ op = "isValidU" /\ t = U32(0, 0) /\ dt.yOff >= 100 /\ ~flag

\* C11: for every valid date in 2000..2099 dayOfTheWeek() returns a value in
\* 0..6 equal to (days since 2000-01-01 + 6) mod 7, so 2000-01-01 gives 6,
\* and each following calendar day gives the previous day's value plus 1
\* modulo 7.
C11_DayOfTheWeek ==
    (op \in {"dayOfTheWeek", "dayOfTheWeek next"} /\ ValidDT(dt)) =>
        LET w == weekday[Len(weekday)]
        IN /\ w \in 0 .. 6
           /\ w = (DaysSince2000(dt) + 6) % 7
           /\ (dt.yOff = 0 /\ dt.m = 1 /\ dt.d = 1) => w = 6
           /\ op = "dayOfTheWeek next" => w = (weekday[1] + 1) % 7

C11_Witness ==
    /\ op = "dayOfTheWeek next"
    /\ other.yOff = 4 /\ other.m = 2 /\ other.d = 29
    /\ dt.yOff = 4 /\ dt.m = 3 /\ dt.d = 1
    /\ weekday = <<0, 1>>

\* the magnitude of the int32_t n as a uint32_t
Magnitude(n) ==
    IF n >= 0 THEN U32Of(n) ELSE U32Add(U32Of(-(n + 1)), U32Of(1))

\* C15: for two valid DateTimes a and b, (a - b).totalseconds() equals the
\* signed difference a.unixtime() - b.unixtime(), negative when a is earlier
\* than b, however far apart the two are within 2000..2099.
C15_SignedDifference ==
    (op = "minus" /\ ValidDT(dt) /\ ValidDT(other)) =>
        LET a == unixtime(dt)
            b == unixtime(other)
        IN IF U32Lt(a, b)
           THEN span < 0 /\ Magnitude(span) = U32Sub(b, a)
           ELSE span >= 0 /\ Magnitude(span) = U32Sub(a, b)

-----------------------------------------------------------------------------
(* DateTime::toString                                                      *)

\* the terminator of a C string
NUL == ""

\* the character '0' + n
Chr0(n) ==
    <<"0", "1", "2", "3", "4", "5", "6", "7", "8", "9", ":", ";", "<", "=",
      ">", "?", "@", "A", "B", "C", "D", "E", "F", "G", "H", "I">>[n + 1]

day_names ==
    <<"S", "u", "n", "M", "o", "n", "T", "u", "e", "W", "e", "d", "T", "h", "u",
      "F", "r", "i", "S", "a", "t">>

month_names ==
    <<"J", "a", "n", "F", "e", "b", "M", "a", "r", "A", "p", "r", "M", "a", "y",
      "J", "u", "n", "J", "u", "l", "A", "u", "g", "S", "e", "p", "O", "c", "t",
      "N", "o", "v", "D", "e", "c">>

\* DateTime::twelveHour
twelveHour(x) ==
    IF x.hh = 0 \/ x.hh = 12 THEN 12
    ELSE IF x.hh > 12 THEN x.hh - 12
    ELSE x.hh

\* buffer[i]; buffer[strlen(buffer)] is the terminator
CharAt(b, i) == IF i < Len(b) THEN b[i + 1] ELSE NUL

\* buffer[i] = c
Put(b, i, c) == [b EXCEPT ![i + 1] = c]

Put2(b, i, c0, c1) == Put(Put(b, i, c0), i + 1, c1)

Put3(b, i, c0, c1, c2) == Put(Put2(b, i, c0, c1), i + 2, c2)

\* buffer[i] = '0' + n / 10; buffer[i + 1] = '0' + n % 10;
PutTwoDigits(b, i, n) == Put2(b, i, Chr0(n \div 10), Chr0(n % 10))

\* strstr(buffer, {c0, c1}) != nullptr
Contains(b, c0, c1) == \E i \in 1 .. Len(b) - 1 : b[i] = c0 /\ b[i + 1] = c1

\* uint8_t apTag = strstr(buffer, "ap") != nullptr || strstr(buffer, "AP") != nullptr
ApTag(b) == Contains(b, "a", "p") \/ Contains(b, "A", "P")

\* hourReformatted
HourReformatted(x, apTag) ==
    IF apTag THEN (IF x.hh = 0 THEN 12
                   ELSE IF x.hh = 12 THEN x.hh
                   ELSE IF x.hh > 12 THEN U8(x.hh - 12)
                   ELSE x.hh)
    ELSE x.hh

\* isPM
IsPM(x, apTag) == apTag /\ x.hh # 0 /\ (x.hh = 12 \/ x.hh > 12)

\* if (buffer[i] == 'h' && buffer[i + 1] == 'h') { ... }
ReplaceHour(b, i, hour) ==
    IF CharAt(b, i) = "h" /\ CharAt(b, i + 1) = "h"
    THEN PutTwoDigits(b, i, hour) ELSE b

\* if (buffer[i] == 'm' && buffer[i + 1] == 'm') { ... }
ReplaceMinute(b, i, x) ==
    IF CharAt(b, i) = "m" /\ CharAt(b, i + 1) = "m"
    THEN PutTwoDigits(b, i, x.mm) ELSE b

\* if (buffer[i] == 's' && buffer[i + 1] == 's') { ... }
ReplaceSecond(b, i, x) ==
    IF CharAt(b, i) = "s" /\ CharAt(b, i + 1) = "s"
    THEN PutTwoDigits(b, i, x.ss) ELSE b

\* if (buffer[i] == 'D' && buffer[i + 1] == 'D') { ... }
ReplaceDay(b, i, x) ==
    IF CharAt(b, i) = "D" /\ CharAt(b, i + 1) = "D"
    THEN (IF CharAt(b, i + 2) = "D"
          THEN LET p == 3 * dayOfTheWeek(x)
               IN Put3(b, i, day_names[p + 1], day_names[p + 2], day_names[p + 3])
          ELSE PutTwoDigits(b, i, x.d))
    ELSE b

\* if (buffer[i] == 'M' && buffer[i + 1] == 'M') { ... }
ReplaceMonth(b, i, x) ==
    IF CharAt(b, i) = "M" /\ CharAt(b, i + 1) = "M"
    THEN (IF CharAt(b, i + 2) = "M"
          THEN LET p == 3 * (x.m - 1)
               IN Put3(b, i, month_names[p + 1], month_names[p + 2],
                       month_names[p + 3])
          ELSE PutTwoDigits(b, i, x.m))
    ELSE b

\* if (buffer[i] == 'Y' && buffer[i + 1] == 'Y') { ... }
ReplaceYear(b, i, x) ==
    IF CharAt(b, i) = "Y" /\ CharAt(b, i + 1) = "Y"
    THEN (IF CharAt(b, i + 2) = "Y" /\ CharAt(b, i + 3) = "Y"
          THEN Put2(Put2(b, i, "2", "0"), i + 2,
                    Chr0((x.yOff \div 10) % 10), Chr0(x.yOff % 10))
          ELSE Put2(b, i, Chr0((x.yOff \div 10) % 10), Chr0(x.yOff % 10)))
    ELSE b

\* if (buffer[i] == 'A' && buffer[i + 1] == 'P') { ... } else if ('a', 'p') { ... }
ReplaceMeridiem(b, i, isPM) ==
    IF CharAt(b, i) = "A" /\ CharAt(b, i + 1) = "P"
    THEN (IF isPM THEN Put2(b, i, "P", "M") ELSE Put2(b, i, "A", "M"))
    ELSE IF CharAt(b, i) = "a" /\ CharAt(b, i + 1) = "p"
    THEN (IF isPM THEN Put2(b, i, "p", "m") ELSE Put2(b, i, "a", "m"))
    ELSE b

\* the body of toString's for loop at index i: the ifs in sequence, each
\* reading the buffer as the ones before it left it
ScanAt(b, i, x, hour, isPM) ==
    ReplaceMeridiem(
        ReplaceYear(
            ReplaceMonth(
                ReplaceDay(
                    ReplaceSecond(
                        ReplaceMinute(
                            ReplaceHour(b, i, hour), i, x), i, x), i, x), i, x), i, x),
        i, isPM)

RECURSIVE ScanFrom(_, _, _, _, _)
\* for (size_t i = 0; i < strlen(buffer) - 1; i++) { ... }
ScanFrom(b, i, x, hour, isPM) ==
    IF i < Len(b) - 1 THEN ScanFrom(ScanAt(b, i, x, hour, isPM), i + 1, x, hour, isPM)
    ELSE b

\* DateTime::toString: what it leaves in the buffer. On an empty buffer
\* strlen(buffer) - 1 wraps to SIZE_MAX: buffer[0] is the terminator, which
\* no specifier matches, and the scan goes on through the memory behind it.
toString(b, x) ==
    LET apTag == ApTag(b)
    IN ScanFrom(b, 0, x, HourReformatted(x, apTag), IsPM(x, apTag))

-----------------------------------------------------------------------------
(* Specification of toString                                               *)

MaxTplLen == 4

Alphabet == {"h", "m", "s", "D", "M", "Y", "A", "P", "a", "p", "-"}

RECURSIVE Strings(_)
\* the strings over Alphabet of length n
Strings(n) ==
    IF n = 0 THEN {<<>>}
    ELSE {Append(w, c) : w \in Strings(n - 1), c \in Alphabet}

Templates ==
    UNION {Strings(n) : n \in 0 .. MaxTplLen}
    \cup {<<"Y", "Y", "Y", "Y", "-", "M", "M", "-", "D", "D", " ",
            "h", "h", ":", "m", "m", ":", "s", "s">>,
          <<"D", "D", "D", ",", " ", "D", "D", " ", "M", "M", "M", " ",
            "Y", "Y", "Y", "Y", " ", "h", "h", ":", "m", "m", ":", "s", "s">>,
          <<"h", "h", ":", "m", "m", " ", "A", "P">>,
          <<"Y", "Y", "M", "M", "D", "D", "h", "h", "m", "m", "s", "s", "a", "p">>}

StringDates ==
    {[yOff |-> 20, m |-> 4, d |-> 16, hh |-> 18, mm |-> 34, ss |-> 56],
     [yOff |-> 0, m |-> 1, d |-> 1, hh |-> 0, mm |-> 0, ss |-> 0],
     [yOff |-> 4, m |-> 2, d |-> 29, hh |-> 9, mm |-> 5, ss |-> 7],
     [yOff |-> 99, m |-> 12, d |-> 31, hh |-> 12, mm |-> 59, ss |-> 59]}

InitString ==
    /\ op = "start"
    /\ DtIdle /\ StrIdle /\ RtcIdle

\* the caller initialises the buffer with the format string
FillBuffer ==
    /\ op = "start"
    /\ \E tpl \in Templates, x \in StringDates :
          fmt' = tpl /\ buffer' = tpl /\ dt' = x
    /\ op' = "buffer"
    /\ UNCHANGED <<weekday, span, pad, args, other, t, flag, overrun, rtcVars>>

\* dt.toString(buffer)
CallToString ==
    /\ op = "buffer"
    /\ buffer' = toString(buffer, dt)
    /\ overrun' = (Len(buffer) = 0)
    /\ op' = "toString"
    /\ UNCHANGED <<weekday, span, pad, args, dt, other, t, flag, fmt, rtcVars>>

NextString == FillBuffer \/ CallToString

SpecString == InitString /\ [][NextString]_vars

-----------------------------------------------------------------------------
(* The specifiers of a format string, stated independently of the scan     *)

\* the format f has the characters w at index i (0-based)
HasAt(f, i, w) == i + Len(w) <= Len(f) /\ SubSeq(f, i + 1, i + Len(w)) = w

Specifiers ==
    <<<<"Y", "Y", "Y", "Y">>, <<"M", "M", "M">>, <<"D", "D", "D">>,
      <<"Y", "Y">>, <<"M", "M">>, <<"D", "D">>, <<"h", "h">>, <<"m", "m">>,
      <<"s", "s">>, <<"A", "P">>, <<"a", "p">>>>

\* the specifier that starts at index i of f, the longest first; <<>> if none
SpecifierAt(f, i) ==
    LET hits == {n \in 1 .. Len(Specifiers) : HasAt(f, i, Specifiers[n])}
    IN IF hits = {} THEN <<>>
       ELSE Specifiers[CHOOSE n \in hits : \A k \in hits : n <= k]

RECURSIVE SpecifiersFrom(_, _)
\* the specifier occurrences of f from index i on, located left to right
SpecifiersFrom(f, i) ==
    IF i >= Len(f) THEN {}
    ELSE LET w == SpecifierAt(f, i)
         IN IF w = <<>> THEN SpecifiersFrom(f, i + 1)
            ELSE {[at |-> i, spec |-> w]} \cup SpecifiersFrom(f, i + Len(w))

TwoDigits(n) == <<Chr0(n \div 10), Chr0(n % 10)>>

\* what the documentation says specifier w of format f shows for DateTime x
Rendering(w, f, x) ==
    CASE w = <<"Y", "Y", "Y", "Y">> -> <<"2", "0">> \o TwoDigits(x.yOff)
      [] w = <<"Y", "Y">> -> TwoDigits(x.yOff)
      [] w = <<"M", "M", "M">> -> SubSeq(month_names, 3 * x.m - 2, 3 * x.m)
      [] w = <<"M", "M">> -> TwoDigits(x.m)
      [] w = <<"D", "D", "D">> ->
             SubSeq(day_names, 3 * dayOfTheWeek(x) + 1, 3 * dayOfTheWeek(x) + 3)
      [] w = <<"D", "D">> -> TwoDigits(x.d)
      [] w = <<"h", "h">> ->
             IF \E i \in 0 .. Len(f) : HasAt(f, i, <<"A", "P">>) \/ HasAt(f, i, <<"a", "p">>)
             THEN TwoDigits(twelveHour(x)) ELSE TwoDigits(x.hh)
      [] w = <<"m", "m">> -> TwoDigits(x.mm)
      [] w = <<"s", "s">> -> TwoDigits(x.ss)
      [] w = <<"A", "P">> -> IF x.hh >= 12 THEN <<"P", "M">> ELSE <<"A", "M">>
      [] w = <<"a", "p">> -> IF x.hh >= 12 THEN <<"p", "m">> ELSE <<"a", "m">>

\* index i (0-based) of f lies inside a specifier occurrence
InSpecifier(f, i) ==
    \E k \in SpecifiersFrom(f, 0) : k.at <= i /\ i < k.at + Len(k.spec)

-----------------------------------------------------------------------------
(* Claims about toString                                                   *)

\* C9: toString replaces every specifier of the format, located left to
\* right with the longer specifier preferred, by the same-width value of a
\* valid DateTime: hh is the 24-hour value when the format holds neither AP
\* nor ap and twelveHour() otherwise, and the marker is PM/pm exactly when
\* hour >= 12.
C9_SpecifiersRendered ==
    (op = "toString" /\ ValidDT(dt)) =>
        \A k \in SpecifiersFrom(fmt, 0) :
            /\ k.at + Len(k.spec) <= Len(buffer)
            /\ SubSeq(buffer, k.at + 1, k.at + Len(k.spec)) = Rendering(k.spec, fmt, dt)

\* C10: toString keeps the length of the format and leaves unchanged every
\* character that is not part of a specifier occurrence of the original
\* format.
C10_OtherCharactersKept ==
    (op = "toString" /\ ValidDT(dt)) =>
        /\ Len(buffer) = Len(fmt)
        /\ \A i \in 0 .. Len(fmt) - 1 :
               ~InSpecifier(fmt, i) => CharAt(buffer, i) = CharAt(fmt, i)

-----------------------------------------------------------------------------
(* RTC driver: the two-wire bus and the device's registers                 *)

M41T81_ADDR == 208
PCF8523_ADDR == 104
PCF8523_CONTROL_3 == 2

\* the device has registers 0 .. RegCount - 1 (dumpRegs reads 20)
RegCount == 20

RECURSIVE BitAnd(_, _)
\* a & b
BitAnd(a, b) ==
    IF a = 0 \/ b = 0 THEN 0
    ELSE (a % 2) * (b % 2) + 2 * BitAnd(a \div 2, b \div 2)

bcd2bin_plain(val) == val

\* static uint8_t bcd2bin(uint8_t val) { return val - 6 * (val >> 4); }
bcd2bin(val) == U8(val - 6 * (val \div 16))

\* static uint8_t bin2bcd(uint8_t val) { return val + 6 * (val / 10); }
bin2bcd(val) == U8(val + 6 * (val \div 10))

\* what register r keeps of the byte v written to it: register 0x10 keeps
\* the bits the device implements there
Stored(r, v) == IF r = 16 THEN BitAnd(v, mask10) ELSE v

\* the registers after the bytes are written from register `start` on, the
\* register pointer advancing after each
WriteRegs(rg, start, bytes) ==
    [r \in 0 .. RegCount - 1 |->
        IF \E k \in 1 .. Len(bytes) : (start + k - 1) % RegCount = r
        THEN LET k == CHOOSE k \in 1 .. Len(bytes) : (start + k - 1) % RegCount = r
             IN Stored(r, bytes[k])
        ELSE rg[r]]

\* beginTransmission(addr); write(bytes[1]); ...; endTransmission(): the
\* first byte sets the register pointer; a device that does not acknowledge
\* at addr keeps its registers
Transmit(addr, bytes) ==
    IF addr \in acks /\ Len(bytes) >= 1
    THEN WriteRegs(regs, bytes[1], Tail(bytes))
    ELSE regs

\* readBytes(r, n) and the k-th RTCWireBus->read() after it (k = 0, 1, ...):
\* an unanswered read returns whatever the transport returns
ReadByte(rg, addr, r, k, idle) ==
    IF addr \in acks THEN rg[(r + k) % RegCount] ELSE idle

Classify_swapped(byte10) == IF byte10 = 7 THEN "M41T81" ELSE "PCF8523"

\* if (byte10 == 0x07) _model = PCF8523; else _model = M41T81;
Classify(byte10) == IF byte10 = 7 THEN "PCF8523" ELSE "M41T81"

\* the bytes adjust(x) writes
AdjustBytes(x) ==
    IF model = "PCF8523"
    THEN <<PCF8523_CONTROL_3, 0, bin2bcd(x.ss), bin2bcd(x.mm), bin2bcd(x.hh),
           bin2bcd(x.d), bin2bcd(0), bin2bcd(x.m), bin2bcd(U8(x.yOff + 2000 - 2000))>>
    ELSE IF model = "M41T81"
    THEN <<1, bin2bcd(x.ss), bin2bcd(x.mm), bin2bcd(x.hh), 0, bin2bcd(x.d),
           bin2bcd(x.m), bin2bcd(U8(x.yOff + 2000 - 2000)),
           128, 128, 0, 0, 0, 0, 0, 0>>
    ELSE <<>>

\* the DateTime now() assembles from the registers
NowValue(idle) ==
    IF model = "PCF8523"
    THEN DateTime6(
            bcd2bin(ReadByte(regs, RTCaddr, 3, 6, idle)) + 2000,
            bcd2bin(BitAnd(ReadByte(regs, RTCaddr, 3, 5, idle), 31)),
            bcd2bin(BitAnd(ReadByte(regs, RTCaddr, 3, 3, idle), 63)),
            bcd2bin(BitAnd(ReadByte(regs, RTCaddr, 3, 2, idle), 63)),
            bcd2bin(BitAnd(ReadByte(regs, RTCaddr, 3, 1, idle), 127)),
            bcd2bin(BitAnd(ReadByte(regs, RTCaddr, 3, 0, idle), 127)))
    ELSE IF model = "M41T81"
    THEN DateTime6(
            bcd2bin(ReadByte(regs, RTCaddr, 1, 6, idle)) + 2000,
            bcd2bin(BitAnd(ReadByte(regs, RTCaddr, 1, 5, idle), 31)),
            bcd2bin(BitAnd(ReadByte(regs, RTCaddr, 1, 4, idle), 63)),
            bcd2bin(BitAnd(ReadByte(regs, RTCaddr, 1, 2, idle), 63)),
            bcd2bin(BitAnd(ReadByte(regs, RTCaddr, 1, 1, idle), 127)),
            bcd2bin(BitAnd(ReadByte(regs, RTCaddr, 1, 0, idle), 127)))
    ELSE DateTime6(0, 1, 1, 0, 0, 0)

-----------------------------------------------------------------------------
(* Specification of the RTC driver                                         *)

MaxSample == 11

\* valid DateTimes with one- and two-digit fields, and the two ends of the
\* range
SampleDates ==
    {[yOff |-> (9 * k) % 100, m |-> (k % 12) + 1, d |-> ((5 * k) % 28) + 1,
      hh |-> (2 * k) % 24, mm |-> (11 * k) % 60, ss |-> (7 * k) % 60] : k \in 0 .. MaxSample}
    \cup {[yOff |-> 99, m |-> 12, d |-> 31, hh |-> 23, mm |-> 59, ss |-> 59],
          [yOff |-> 0, m |-> 1, d |-> 1, hh |-> 0, mm |-> 0, ss |-> 0]}

\* a DateTime that is not valid
BadDates == {[yOff |-> 165, m |-> 13, d |-> 32, hh |-> 24, mm |-> 60, ss |-> 60]}

RegFills == {0, 255}
Masks10 == {0, 7, 255}
IdleBytes == {0, 255}

\* the driver object as constructed, on a bus with one register-backed
\* device (or none)
InitRTC ==
    /\ op = "start"
    /\ DtIdle /\ StrIdle
    /\ RTCWireBus = "null"
    /\ model = "unknown"
    /\ RTCaddr = 0
    /\ acks \in SUBSET {M41T81_ADDR, PCF8523_ADDR}
    /\ mask10 \in Masks10
    /\ \E fill \in RegFills : regs = [r \in 0 .. RegCount - 1 |-> fill]
    /\ busTx = 0 /\ busWr = <<>>
    /\ before = <<>> /\ osc = "unset" /\ cleared = FALSE

\* dt, other, flag and buffer hold the argument and the return value of the
\* last driver operation only: an operation without one leaves the default
NoArgument == dt' = Epoch2000
NoDateTime == other' = Epoch2000
NoBoolean == flag' = FALSE
NoResponse == buffer' = <<>>

\* the device answers at the address the driver resolved, and the driver
\* has a model for it
Detected == model # "unknown" /\ RTCaddr \in acks

\* the record of calls: `before` holds now()'s result only across the
\* stop() or resetLostPower() that directly follows it
NoBefore == before' = <<>>
BeforeFromNow == before' = IF op \in {"now", "now after adjust"} THEN <<other>> ELSE <<>>
KeepHistory == UNCHANGED <<osc, cleared>>

\* RTC::begin
Begin ==
    /\ RTCWireBus' = "wire"
    /\ NoResponse
    /\ op' = "begin"
    /\ IF M41T81_ADDR \in acks
       THEN /\ model' = "M41T81"
            /\ RTCaddr' = M41T81_ADDR
            /\ flag' = TRUE
            /\ busTx' = 1 /\ busWr' = <<>>
            /\ UNCHANGED regs
       ELSE IF PCF8523_ADDR \in acks
       THEN /\ RTCaddr' = PCF8523_ADDR
            /\ regs' = Transmit(PCF8523_ADDR, <<16, 255>>)
            /\ \E idle \in IdleBytes :
                  model' = Classify(ReadByte(regs', PCF8523_ADDR, 16, 0, idle))
            /\ flag' = TRUE
            /\ busTx' = 4 /\ busWr' = <<16, 255, 16>>
       ELSE /\ model' = "unknown"
            /\ flag' = FALSE
            /\ busTx' = 2 /\ busWr' = <<>>
            /\ UNCHANGED <<RTCaddr, regs>>
    /\ NoArgument /\ NoDateTime
    /\ NoBefore /\ KeepHistory
    /\ UNCHANGED <<weekday, span, pad, args, t, fmt, overrun, acks, mask10>>

\* RTC::dumpRegs
DumpRegs ==
    /\ RTCWireBus' = "wire"
    /\ model' = "M41T81"
    /\ RTCaddr' = PCF8523_ADDR
    /\ busTx' = 1 /\ busWr' = <<0>>
    /\ NoResponse
    /\ op' = "dumpRegs"
    /\ NoArgument /\ NoDateTime /\ NoBoolean
    /\ NoBefore /\ KeepHistory
    /\ UNCHANGED <<weekday, span, pad, args, t, fmt, overrun, acks, mask10, regs>>

\* RTC::isRunning
IsRunning ==
    /\ model = "unknown" \/ RTCWireBus # "null"
    /\ NoResponse
    /\ op' = "isRunning"
    /\ IF model = "unknown"
       THEN flag' = FALSE /\ busTx' = 0 /\ busWr' = <<>>
       ELSE IF model = "PCF8523"
       THEN /\ \E idle \in IdleBytes :
                  flag' = (BitAnd(ReadByte(regs, RTCaddr, PCF8523_CONTROL_3, 0, idle), 224) # 224)
            /\ busTx' = 1 /\ busWr' = <<PCF8523_CONTROL_3>>
       ELSE /\ \E idle \in IdleBytes :
                  flag' = (BitAnd(ReadByte(regs, RTCaddr, 1, 0, idle), 128) \div 128 = 0)
            /\ busTx' = 1 /\ busWr' = <<1>>
    /\ NoArgument /\ NoDateTime
    /\ NoBefore /\ KeepHistory
    /\ UNCHANGED <<weekday, span, pad, args, t, fmt, overrun, RTCWireBus, model, RTCaddr,
                   acks, mask10, regs>>

\* RTC::lostPower
LostPower ==
    /\ model = "unknown" \/ RTCWireBus # "null"
    /\ NoResponse
    /\ op' = "lostPower"
    /\ IF model = "unknown"
       THEN flag' = FALSE /\ busTx' = 0 /\ busWr' = <<>>
       ELSE IF model = "PCF8523"
       THEN /\ \E idle \in IdleBytes :
                  flag' = (BitAnd(ReadByte(regs, RTCaddr, PCF8523_CONTROL_3, 0, idle), 8) \div 8 # 0)
            /\ busTx' = 1 /\ busWr' = <<PCF8523_CONTROL_3>>
       ELSE /\ \E idle \in IdleBytes :
                  flag' = (BitAnd(ReadByte(regs, RTCaddr, 12, 0, idle), 64) \div 64 # 0)
            /\ busTx' = 1 /\ busWr' = <<12>>
    /\ NoArgument /\ NoDateTime
    /\ NoBefore /\ KeepHistory
    /\ UNCHANGED <<weekday, span, pad, args, t, fmt, overrun, RTCWireBus, model, RTCaddr,
                   acks, mask10, regs>>

\* RTC::resetLostPower
ResetLostPower ==
    /\ RTCWireBus # "null"
    /\ NoResponse
    /\ op' = "resetLostPower"
    /\ busWr' = IF model = "PCF8523" THEN <<PCF8523_CONTROL_3, 0>>
                ELSE IF model = "M41T81" THEN <<12, 0>>
                ELSE <<0>>
    /\ busTx' = 1
    /\ regs' = Transmit(RTCaddr, busWr')
    /\ NoArgument /\ NoDateTime /\ NoBoolean
    /\ BeforeFromNow
    /\ cleared' = (cleared \/ Detected)
    /\ UNCHANGED osc
    /\ UNCHANGED <<weekday, span, pad, args, t, fmt, overrun, RTCWireBus, model,
                   RTCaddr, acks, mask10>>

\* RTC::adjust
Adjust ==
    /\ model = "unknown" \/ RTCWireBus # "null"
    /\ NoResponse
    /\ op' = "adjust"
    /\ \E x \in SampleDates \cup BadDates :
          /\ dt' = x
          /\ IF model = "unknown"
             THEN busTx' = 0 /\ busWr' = <<>> /\ UNCHANGED regs
             ELSE /\ busTx' = 1
                  /\ busWr' = AdjustBytes(x)
                  /\ regs' = Transmit(RTCaddr, AdjustBytes(x))
    /\ NoDateTime /\ NoBoolean
    /\ NoBefore
    /\ osc' = (IF ~Detected THEN osc ELSE IF ValidDT(dt') THEN "adjusted" ELSE "unset")
    /\ cleared' = (cleared \/ Detected)
    /\ UNCHANGED <<weekday, span, pad, args, t, fmt, overrun, RTCWireBus, model, RTCaddr,
                   acks, mask10>>

\* RTC::now
Now ==
    /\ model = "unknown" \/ RTCWireBus # "null"
    /\ NoResponse
    /\ op' = IF op = "adjust" THEN "now after adjust" ELSE "now"
    /\ \E idle \in IdleBytes : other' = NowValue(idle)
    /\ busTx' = IF model = "unknown" THEN 0 ELSE 1
    /\ busWr' = IF model = "PCF8523" THEN <<3>>
                ELSE IF model = "M41T81" THEN <<1>>
                ELSE <<>>
    /\ dt' = (IF op = "adjust" THEN dt ELSE Epoch2000)
    /\ NoBoolean
    /\ before' = (IF op \in {"stop", "resetLostPower"} THEN before ELSE <<>>)
    /\ KeepHistory
    /\ UNCHANGED <<weekday, span, pad, args, t, fmt, overrun, RTCWireBus, model, RTCaddr,
                   acks, mask10, regs>>

\* RTC::lowBattery
LowBattery ==
    /\ model = "unknown" \/ RTCWireBus # "null"
    /\ NoResponse
    /\ op' = "lowBattery"
    /\ IF model = "PCF8523"
       THEN /\ \E idle \in IdleBytes :
                  flag' = (BitAnd(ReadByte(regs, RTCaddr, PCF8523_CONTROL_3, 0, idle), 4) \div 4 # 0)
            /\ busTx' = 1 /\ busWr' = <<PCF8523_CONTROL_3>>
       ELSE IF model = "M41T81"
       THEN /\ \E idle \in IdleBytes :
                  flag' = (BitAnd(ReadByte(regs, RTCaddr, 15, 0, idle), 1) \div 16 # 0)
            /\ busTx' = 1 /\ busWr' = <<15>>
       ELSE flag' = FALSE /\ busTx' = 0 /\ busWr' = <<>>
    /\ NoArgument /\ NoDateTime
    /\ NoBefore /\ KeepHistory
    /\ UNCHANGED <<weekday, span, pad, args, t, fmt, overrun, RTCWireBus, model, RTCaddr,
                   acks, mask10, regs>>

\* RTC::stop
Stop ==
    /\ RTCWireBus # "null"
    /\ NoResponse
    /\ op' = "stop"
    /\ busWr' = IF model = "PCF8523" THEN <<PCF8523_CONTROL_3, 224>>
                ELSE IF model = "M41T81" THEN <<1, 128>>
                ELSE <<>>
    /\ busTx' = 1
    /\ regs' = Transmit(RTCaddr, busWr')
    /\ NoArgument /\ NoDateTime /\ NoBoolean
    /\ BeforeFromNow
    /\ osc' = (IF Detected THEN "stopped" ELSE osc)
    /\ UNCHANGED cleared
    /\ UNCHANGED <<weekday, span, pad, args, t, fmt, overrun, RTCWireBus, model,
                   RTCaddr, acks, mask10>>

\* RTC::model
ModelLabel ==
    /\ op' = "model"
    /\ buffer' = IF model = "unknown" THEN <<"unknown">> ELSE <<model, RTCaddr>>
    /\ busTx' = 0 /\ busWr' = <<>>
    /\ NoArgument /\ NoDateTime /\ NoBoolean
    /\ NoBefore /\ KeepHistory
    /\ UNCHANGED <<weekday, span, pad, args, t, fmt, overrun, RTCWireBus, model,
                   RTCaddr, acks, mask10, regs>>

\* RTC::isPCF8525
IsPCF8525 ==
    /\ NoResponse
    /\ op' = "isPCF8525"
    /\ flag' = (model = "PCF8523")
    /\ busTx' = 0 /\ busWr' = <<>>
    /\ NoArgument /\ NoDateTime
    /\ NoBefore /\ KeepHistory
    /\ UNCHANGED <<weekday, span, pad, args, t, fmt, overrun, RTCWireBus, model, RTCaddr,
                   acks, mask10, regs>>

\* RTC::isM41T81
IsM41T81 ==
    /\ NoResponse
    /\ op' = "isM41T81"
    /\ flag' = (model = "M41T81")
    /\ busTx' = 0 /\ busWr' = <<>>
    /\ NoArgument /\ NoDateTime
    /\ NoBefore /\ KeepHistory
    /\ UNCHANGED <<weekday, span, pad, args, t, fmt, overrun, RTCWireBus, model, RTCaddr,
                   acks, mask10, regs>>

NextRTC ==
    \/ Begin \/ DumpRegs \/ IsRunning \/ LostPower \/ ResetLostPower \/ Adjust
    \/ Now \/ LowBattery \/ Stop \/ ModelLabel \/ IsPCF8525 \/ IsM41T81

SpecRTC == InitRTC /\ [][NextRTC]_vars

-----------------------------------------------------------------------------
(* Claims about the RTC driver                                             *)

\* C4: with either model detected on a register-backed bus, adjust(dt) with
\* a valid dt immediately followed by now() returns a DateTime equal to dt.
C4_AdjustNowRoundTrip ==
    (op = "now after adjust" /\ Detected /\ ValidDT(dt)) => other = dt

C4_Witness ==
    /\ op = "now after adjust" /\ Detected /\ model = "PCF8523"
    /\ dt = [yOff |-> 99, m |-> 12, d |-> 31, hh |-> 23, mm |-> 59, ss |-> 59]
    /\ other = dt

\* what register 0x10 reads back after 0xFF was written to it
Echo == BitAnd(255, mask10)

\* C5: begin's outcome is decided by the addresses that acknowledge and the
\* echo of register 0x10: M41T81 at its own address if that acknowledges
\* (the PCF8523 address is then not probed); else, if the PCF8523 address
\* acknowledges, that address with PCF8523 when the echo is 0x07 and M41T81
\* otherwise; else false and unknown. begin returns true exactly when the
\* model is not unknown.
C5_BeginOutcome ==
    op = "begin" =>
        /\ M41T81_ADDR \in acks =>
              (flag /\ model = "M41T81" /\ RTCaddr = M41T81_ADDR /\ busTx = 1)
        /\ (M41T81_ADDR \notin acks /\ PCF8523_ADDR \in acks) =>
              /\ flag /\ RTCaddr = PCF8523_ADDR
              /\ model = (IF Echo = 7 THEN "PCF8523" ELSE "M41T81")
        /\ (M41T81_ADDR \notin acks /\ PCF8523_ADDR \notin acks) =>
              (~flag /\ model = "unknown")
        /\ flag <=> model # "unknown"

C5_Witness ==
    /\ op = "begin" /\ acks = {PCF8523_ADDR} /\ Echo = 7
    /\ flag /\ model = "PCF8523" /\ RTCaddr = PCF8523_ADDR

\* C6: while the model is unknown, adjust, resetLostPower and stop start no
\* bus transaction and write no byte, isRunning, lostPower and lowBattery
\* return false, and now() returns 2000-01-01T00:00:00.
C6_UnknownIsInert ==
    model = "unknown" =>
        /\ op \in {"adjust", "resetLostPower", "stop"} => (busTx = 0 /\ busWr = <<>>)
        /\ op \in {"isRunning", "lostPower", "lowBattery"} => ~flag
        /\ op \in {"now", "now after adjust"} => other = Epoch2000

\* C7: the model and the address change only inside begin().
C7_OnlyBeginSetsModel ==
    [][op' # "begin" => (model' = model /\ RTCaddr' = RTCaddr)]_vars

\* the register and bit the spec's table names for each model's flags
LowBatteryBit ==
    IF model = "M41T81" THEN BitAnd(regs[15], 1) # 0
    ELSE BitAnd(regs[PCF8523_CONTROL_3], 4) # 0

LostPowerBit ==
    IF model = "M41T81" THEN BitAnd(regs[12], 64) # 0
    ELSE BitAnd(regs[PCF8523_CONTROL_3], 8) # 0

RunningBits ==
    IF model = "M41T81" THEN BitAnd(regs[1], 128) = 0
    ELSE BitAnd(regs[PCF8523_CONTROL_3], 224) # 224

\* C12: lowBattery() returns true exactly when the model's low-battery bit
\* is set in the registers the bus returns (bit 0 of register 0x0F for
\* M41T81, bit 2 of control register 3 for PCF8523), and false when the
\* model is unknown.
C12_LowBatteryBit ==
    op = "lowBattery" =>
        /\ Detected => (flag <=> LowBatteryBit)
        /\ model = "unknown" => ~flag

\* C13: with a detected model lostPower() returns the latched flag (bit 6
\* of register 0x0C for M41T81, bit 3 of control register 3 for PCF8523),
\* and once resetLostPower() or adjust(dt) has run every later lostPower()
\* returns false.
C13_LostPowerLatch ==
    (op = "lostPower" /\ Detected) =>
        /\ flag <=> LostPowerBit
        /\ cleared => ~flag

\* C14: with a detected model, after stop() every isRunning() returns false
\* until the next adjust(dt), and after adjust(dt) with a valid dt
\* isRunning() returns true; isRunning tests bit 7 of register 0x01 for
\* M41T81 and the 0xE0 pattern of control register 3 for PCF8523.
C14_StopUntilAdjust ==
    (op = "isRunning" /\ Detected) =>
        /\ flag <=> RunningBits
        /\ osc = "stopped" => ~flag
        /\ osc = "adjusted" => flag

\* C17: with a detected model, now() called right after stop() or
\* resetLostPower() returns the DateTime that now() returned right before
\* it.
C17_TimeKeptAcrossStopAndReset ==
    (op = "now" /\ Detected /\ before # <<>>) => other = before[1]

-----------------------------------------------------------------------------
(* Specification of the ISO 8601 constructor and timestamp                 *)

TimestampOpts == {"TIMESTAMP_TIME", "TIMESTAMP_DATE", "TIMESTAMP_FULL"}

\* DateTimes to print: valid ones, and one with fields out of range
IsoDates == SampleDates \cup StringDates \cup BadDates

\* the texts handed to the constructor: the printed text, each of its
\* prefixes, the text with a character replaced, and the text with a suffix
IsoInputs(b) ==
    {SubSeq(b, 1, n) : n \in 0 .. Len(b)}
    \cup {[b EXCEPT ![k] = "x"] : k \in 1 .. Len(b)}
    \cup {b \o <<"Z">>}

InitIso ==
    /\ op = "start"
    /\ DtIdle /\ StrIdle /\ RtcIdle

\* buffer = dt.timestamp(opt)
Timestamp ==
    /\ op = "start"
    /\ \E x \in IsoDates, opt \in TimestampOpts :
          dt' = x /\ buffer' = timestamp(x, opt) /\ op' = opt
    /\ UNCHANGED <<weekday, span, pad, args, other, t, flag, fmt, overrun, rtcVars>>

\* DateTime other(text)
NewDateTimeIso ==
    /\ op \in TimestampOpts
    /\ \E s \in IsoInputs(buffer) : fmt' = s /\ other' = DateTimeIso(s)
    /\ op' = "DateTimeIso"
    /\ UNCHANGED <<weekday, span, pad, args, dt, t, flag, buffer, overrun, rtcVars>>

NextIso == Timestamp \/ NewDateTimeIso

SpecIso == InitIso /\ [][NextIso]_vars

\* the field of a DateTime whose two digits are at offsets o and o + 1 of
\* "YYYY-MM-DDThh:mm:ss"
IsoField(x, o) ==
    CASE o = 2 -> x.yOff [] o = 5 -> x.m [] o = 8 -> x.d
      [] o = 11 -> x.hh [] o = 14 -> x.mm [] o = 17 -> x.ss

IsoOffsets == {2, 5, 8, 11, 14, 17}

\* C16: a well-formed 19-character text with year 2000..2099 yields exactly
\* its fields, so DateTime(dt.timestamp(TIMESTAMP_FULL)) equals dt for a
\* valid dt; for a text shorter than 19 characters every field whose two
\* digits lie wholly beyond the text keeps the default of the template
\* 2000-01-01T00:00:00.
C16_IsoOverlay ==
    op = "DateTimeIso" =>
        /\ (fmt = buffer /\ Len(fmt) = 19 /\ ValidDT(dt)) => other = dt
        /\ Len(fmt) < 19 =>
              \A o \in IsoOffsets :
                  o >= Len(fmt) => IsoField(other, o) = IsoField(Epoch2000, o)

C16_Witness ==
    /\ op = "DateTimeIso" /\ fmt = buffer /\ Len(fmt) = 19
    /\ dt = LastDay /\ other = dt

====
